---- MODULE Spec2Model ----
(***************************************************************************)
(* Model of the smiletrack-rs tracking engine (src/src/tracker.rs):        *)
(* SMILEtrack::update and the STrack / KalmanFilter / GMC operations it    *)
(* calls, with the IoU helper of src/src/utils.rs.                         *)
(*                                                                         *)
(* Numbers.  The code computes in f32.  Lengths are modelled as integers   *)
(* in units of 1/8 pixel (Px) and variances in units of 1/64 pixel^2; a     *)
(* quotient is rounded to the nearest unit (Div).  The 8x8 covariance is   *)
(* kept as its entries (i,i), (i,i+4) and (i+4,i+4), i = 1..4: initiate    *)
(* builds a diagonal matrix, and the motion matrix, the diagonal noise     *)
(* matrices and the gain only ever couple coordinate i with its own        *)
(* velocity i+4, so every other entry stays 0.                             *)
(* Confidences are integers in percent.  Wall-clock instants are integers  *)
(* in seconds.                                                             *)
(***************************************************************************)
EXTENDS Integers, Sequences, FiniteSets, TLC

VARIABLES tracked_stracks, lost_stracks, removed_stracks, track_id_count,
          track_buffer, gmc, clock, next_frame_id, last,
          iou_call, match_call, dedup_call, kf, strack, strack_log

\* the tracker and its caller
tracker_vars == <<tracked_stracks, lost_stracks, removed_stracks, track_id_count,
                  track_buffer, gmc, clock, next_frame_id, last>>

\* the functions and objects exercised on their own: the latest call of
\* compute_iou, of match_tracks and of remove_duplicate_tracks, one Kalman
\* state, one STrack with the operations applied to it
unit_vars == <<iou_call, match_call, dedup_call, kf, strack, strack_log>>

vars == <<tracker_vars, unit_vars>>

(***************************************************************************)
(* Bounds of the model.                                                    *)
(***************************************************************************)
MaxFrames == 5
MaxTracks == 2

(***************************************************************************)
(* Units and program constants.                                            *)
(***************************************************************************)
\* n pixels in length units
Px(n) == 8 * n

MaxTimeLost == 30
ClassHistCap == 10
TrackHighThresh == 50

(***************************************************************************)
(* Arithmetic helpers.                                                     *)
(***************************************************************************)
Max(a, b) == IF a >= b THEN a ELSE b
Min(a, b) == IF a <= b THEN a ELSE b

\* a / b rounded to the nearest integer, b > 0
Div(a, b) == (2 * a + b) \div (2 * b)

RECURSIVE FracGT(_, _, _, _)
\* a/b > c/d for b, d > 0 and a, c >= 0, without forming the cross products
FracGT(a, b, c, d) ==
    LET q1 == a \div b
        q2 == c \div d
        r1 == a % b
        r2 == c % d
    IN  IF q1 # q2 THEN q1 > q2
        ELSE IF r1 = 0 THEN FALSE
        ELSE IF r2 = 0 THEN TRUE
        ELSE FracGT(d, r2, b, r1)

Range(s) == {s[i] : i \in 1..Len(s)}

(***************************************************************************)
(* utils.rs: IoU.  compute_iou takes both arguments as [x, y, w, h] and    *)
(* adds the third and fourth component to the first and second.            *)
(***************************************************************************)
\* IouParts without the clamp of the intersection's sides at 0
IouPartsUnclamped(ax1, ay1, ax2, ay2, bx1, by1, bx2, by2) ==
    LET x1 == Max(ax1, bx1)
        y1 == Max(ay1, by1)
        x2 == Min(ax2, bx2)
        y2 == Min(ay2, by2)
        inter_area == (x2 - x1) * (y2 - y1)
        a_area == (ax2 - ax1) * (ay2 - ay1)
        b_area == (bx2 - bx1) * (by2 - by1)
        union == a_area + b_area - inter_area
    IN  IF union <= 0 THEN [inter |-> 0, union |-> 1]
        ELSE [inter |-> inter_area, union |-> union]

\* the intersection area and the union area of two corner-form boxes
IouParts(ax1, ay1, ax2, ay2, bx1, by1, bx2, by2) ==
    LET x1 == Max(ax1, bx1)
        y1 == Max(ay1, by1)
        x2 == Min(ax2, bx2)
        y2 == Min(ay2, by2)
        inter_area == Max(x2 - x1, 0) * Max(y2 - y1, 0)
        a_area == (ax2 - ax1) * (ay2 - ay1)
        b_area == (bx2 - bx1) * (by2 - by1)
        union == a_area + b_area - inter_area
    IN  IF union <= 0 THEN [inter |-> 0, union |-> 1]
        ELSE [inter |-> inter_area, union |-> union]

\* compute_iou(a, b) as the fraction inter / union
compute_iou(a, b) ==
    IouParts(a[1], a[2], a[1] + a[3], a[2] + a[4],
             b[1], b[2], b[1] + b[3], b[2] + b[4])

\* iou > num / den
IouAbove(iou, num, den) == iou.inter * den > num * iou.union

\* 1 - iou1 < 1 - iou2
CostLess(iou1, iou2) == FracGT(iou1.inter, iou1.union, iou2.inter, iou2.union)

(***************************************************************************)
(* KalmanFilter.  std_weight_position = 1/20, std_weight_velocity = 1/160. *)
(***************************************************************************)
\* (std_weight_position * len)^2 and (std_weight_velocity * len)^2
PosVar(len) == Div(len * len, 400)
VelVar(len) == Div(len * len, 25600)

\* the width for coordinates x and w, the height for y and h
SizeOf(mean, i) == IF i \in {1, 3} THEN mean[3] ELSE mean[4]

KalmanInitiate(measurement) ==
    [mean |-> <<measurement[1], measurement[2], measurement[3], measurement[4],
                0, 0, 0, 0>>,
     cov  |-> LET P(len) == [pp |-> 4 * PosVar(len), pv |-> 0,
                             vv |-> Div(100 * len * len, 25600)]
              IN  <<P(measurement[3]), P(measurement[4]),
                    P(measurement[3]), P(measurement[4])>>]

\* predict that does not apply the motion matrix to the mean
KalmanPredictStatic(mean, cov) ==
    LET P(i) == [pp |-> cov[i].pp + 2 * cov[i].pv + cov[i].vv + PosVar(SizeOf(mean, i)),
                 pv |-> cov[i].pv + cov[i].vv,
                 vv |-> cov[i].vv + VelVar(SizeOf(mean, i))]
    IN  [mean |-> mean, cov |-> <<P(1), P(2), P(3), P(4)>>]

KalmanPredict(mean, cov) ==
    LET P(i) == [pp |-> cov[i].pp + 2 * cov[i].pv + cov[i].vv + PosVar(SizeOf(mean, i)),
                 pv |-> cov[i].pv + cov[i].vv,
                 vv |-> cov[i].vv + VelVar(SizeOf(mean, i))]
    IN  [mean |-> <<mean[1] + mean[5], mean[2] + mean[6], mean[3] + mean[7],
                    mean[4] + mean[8], mean[5], mean[6], mean[7], mean[8]>>,
         cov  |-> <<P(1), P(2), P(3), P(4)>>]

\* project without the measurement noise R
KalmanProjectNoNoise(mean, cov, i) == cov[i].pp

\* innovation covariance entry (i,i): S = H P H^T + R
KalmanProject(mean, cov, i) == cov[i].pp + PosVar(SizeOf(mean, i))

KalmanUpdate(mean, cov, measurement) ==
    LET S(i) == KalmanProject(mean, cov, i)
        innovation(i) == measurement[i] - mean[i]
        \* gain K = P H^T S^-1: rows i and i+4 of column i are pp/S and pv/S
        newcov(i) ==
            LET s == S(i)
                pp == cov[i].pp
                pv == cov[i].pv
                vv == cov[i].vv
                r == s - pp
            IN  IF s <= 0 THEN cov[i]
                ELSE \* (I - KH) P (I - KH)^T + K S K^T
                     [pp |-> Div(Div(r * r * pp, s), s) + Div(pp * pp, s),
                      pv |-> Div(Div(r * r * pv, s), s) + Div(pp * pv, s),
                      vv |-> Div(Div(pv * pv * pp, s), s) - 2 * Div(pv * pv, s)
                             + vv + Div(pv * pv, s)]
        newmean(k) ==
            LET i == IF k <= 4 THEN k ELSE k - 4
                num == IF k <= 4 THEN cov[i].pp ELSE cov[i].pv
            IN  IF S(i) <= 0 THEN mean[k]
                ELSE mean[k] + Div(num * innovation(i), S(i))
    IN  [mean |-> <<newmean(1), newmean(2), newmean(3), newmean(4),
                    newmean(5), newmean(6), newmean(7), newmean(8)>>,
         cov  |-> <<newcov(1), newcov(2), newcov(3), newcov(4)>>]

(***************************************************************************)
(* STrack.  A track is a record of the fields of struct STrack.  features  *)
(* and motion_trail are left out: SMILEtrack::update passes no feature     *)
(* (feat = None) and nothing writes motion_trail.                          *)
(***************************************************************************)
New == "New"
Tracked == "Tracked"
Lost == "Lost"
Removed == "Removed"

STrackNew(tlwh, score, class_id, frame_id, now) ==
    LET k == KalmanInitiate(tlwh)
    IN  [mean |-> k.mean, cov |-> k.cov, tlwh |-> tlwh, score |-> score,
         track_id |-> 0, state |-> New, is_activated |-> FALSE,
         frame_id |-> frame_id, start_frame |-> frame_id, tracklet_len |-> 0,
         class_id |-> class_id, class_hist |-> <<class_id>>,
         last_update |-> now]

state_to_tlwh(t) == <<t.mean[1], t.mean[2], t.mean[3], t.mean[4]>>

tlwh_to_tlbr(tlwh) == <<tlwh[1], tlwh[2], tlwh[1] + tlwh[3], tlwh[2] + tlwh[4]>>

STrackPredict(t) ==
    LET k == KalmanPredict(t.mean, t.cov)
        m == [t EXCEPT !.mean = k.mean, !.cov = k.cov]
    IN  [m EXCEPT !.tlwh = state_to_tlwh(m)]

\* number of occurrences of class c in the history h
CountOf(h, c) == Cardinality({i \in 1..Len(h) : h[i] = c})

\* the classes with the highest count: max_by_key over the HashMap's
\* iteration order, which is unspecified, returns one of them
ModeSet(h) == {c \in Range(h) : \A d \in Range(h) : CountOf(h, c) >= CountOf(h, d)}

\* PushClass without the cap on the length
PushClassNoCap(h, c) == Append(h, c)

PushClass(h, c) ==
    LET pushed == Append(h, c)
    IN  IF Len(pushed) > ClassHistCap THEN Tail(pushed) ELSE pushed

\* STrack::update; mode is the class the max_by_key call returns
STrackUpdate(t, det, frame_id, now, mode) ==
    LET k == KalmanUpdate(t.mean, t.cov, det.tlwh)
        m == [t EXCEPT !.mean = k.mean, !.cov = k.cov]
    IN  [m EXCEPT !.tlwh = state_to_tlwh(m),
                  !.frame_id = frame_id,
                  !.tracklet_len = t.tracklet_len + 1,
                  !.state = Tracked,
                  !.is_activated = TRUE,
                  !.score = det.confidence,
                  !.class_hist = PushClass(t.class_hist, det.class_id),
                  !.class_id = mode,
                  !.last_update = now]

\* mark_lost that also counts the frame as an update
mark_lost_counts(t) == [t EXCEPT !.state = Lost, !.tracklet_len = t.tracklet_len + 1]

\* mark_lost that also restarts the count of updates
mark_lost_resets(t) == [t EXCEPT !.state = Lost, !.tracklet_len = 0]

mark_lost(t) == [t EXCEPT !.state = Lost]

mark_removed(t) == [t EXCEPT !.state = Removed]

\* activate that keeps the Kalman state of the track
activate_keeps_kalman(t, frame_id, track_id) ==
    [t EXCEPT !.track_id = track_id,
              !.state = Tracked,
              !.is_activated = IF frame_id = 1 THEN TRUE ELSE t.is_activated,
              !.frame_id = frame_id,
              !.start_frame = frame_id]

activate(t, frame_id, track_id) ==
    LET k == KalmanInitiate(t.tlwh)
    IN  [t EXCEPT !.mean = k.mean, !.cov = k.cov,
                  !.track_id = track_id,
                  !.state = Tracked,
                  !.is_activated = IF frame_id = 1 THEN TRUE ELSE t.is_activated,
                  !.frame_id = frame_id,
                  !.start_frame = frame_id]

\* re_activate that hands out another id
re_activate_newid(t, det, frame_id, new_id) ==
    LET k == KalmanUpdate(t.mean, t.cov, det.tlwh)
    IN  [t EXCEPT !.mean = k.mean, !.cov = k.cov,
                  !.tracklet_len = 0,
                  !.state = Tracked,
                  !.is_activated = TRUE,
                  !.frame_id = frame_id,
                  !.track_id = IF new_id THEN t.track_id ELSE t.track_id + 1,
                  !.score = det.confidence]

re_activate(t, det, frame_id, new_id) ==
    LET k == KalmanUpdate(t.mean, t.cov, det.tlwh)
    IN  [t EXCEPT !.mean = k.mean, !.cov = k.cov,
                  !.tracklet_len = 0,
                  !.state = Tracked,
                  !.is_activated = TRUE,
                  !.frame_id = frame_id,
                  !.track_id = t.track_id,
                  !.score = det.confidence]

(***************************************************************************)
(* GMC.  The image operations are OpenCV's; a homography is modelled by    *)
(* the translation <<dx, dy>> it applies to a point.                       *)
(***************************************************************************)
NoHomography == <<>>

perspective_transform(pt, homography) == <<pt[1] + homography[1], pt[2] + homography[2]>>

apply_to_track(t, homography) ==
    LET p1 == perspective_transform(<<t.tlwh[1], t.tlwh[2]>>, homography)
        p2 == perspective_transform(<<t.tlwh[1] + t.tlwh[3], t.tlwh[2] + t.tlwh[4]>>, homography)
        m == [t EXCEPT !.mean = <<p1[1], p1[2], p2[1] - p1[1], p2[2] - p1[2],
                                  t.mean[5], t.mean[6], t.mean[7], t.mean[8]>>]
    IN  [m EXCEPT !.tlwh = state_to_tlwh(m)]

None == -1

\* max_corners, and the number of corners good_features_to_track finds in a
\* frame: none in a frame without texture (the output array is released and
\* left empty), max_corners in any other
MaxCorners == 1000
NoCorners == 0

\* GMC::apply on the image of frame `frame`.  prev_pts is modelled by the
\* number of its points and pts_frame, the frame they were found in.  outcome says what the OpenCV calls do for reasons
\* of their own: "ok", or the call that fails.  corners is the number of
\* corners found in the frame, found the homography that find_homography
\* returns, NoHomography when fewer than 4 correspondences are valid.
\* calc_optical_flow_pyr_lk rejects an empty array of previous points with
\* an error (its check of the point array fails on an array without data).
GmcApply(g, frame, outcome, found, corners) ==
    IF outcome = "cvt_err" THEN [gmc |-> g, ok |-> FALSE, homography |-> NoHomography]
    ELSE IF g.prev_frame = None THEN
        IF outcome = "corners_err"
        THEN [gmc |-> [g EXCEPT !.prev_frame = frame], ok |-> FALSE, homography |-> NoHomography]
        ELSE [gmc |-> [prev_frame |-> frame, prev_pts |-> corners, pts_frame |-> frame],
              ok |-> TRUE,
              homography |-> NoHomography]
    ELSE IF g.prev_pts \in {None, NoCorners}
        THEN [gmc |-> g, ok |-> FALSE, homography |-> NoHomography]
    ELSE IF outcome = "corners_err"
        THEN [gmc |-> [g EXCEPT !.prev_frame = frame], ok |-> FALSE, homography |-> NoHomography]
        ELSE [gmc |-> [prev_frame |-> frame, prev_pts |-> corners, pts_frame |-> frame],
              ok |-> TRUE,
              homography |-> found]

(***************************************************************************)
(* SMILEtrack::match_tracks.  Indices are 1-based; 0 stands for the        *)
(* sentinel filtered_dets.len() of min_idx.                                *)
(***************************************************************************)
IouDist(track, det) == compute_iou(tlwh_to_tlbr(track.tlwh), tlwh_to_tlbr(det.tlwh))

RECURSIVE ScanDetsLast(_, _, _, _, _)
\* the inner loop with `<=` in place of `<`: among equal costs the last wins
ScanDetsLast(track, filtered_dets, used_dets, j, min_idx) ==
    IF j > Len(filtered_dets) THEN min_idx
    ELSE LET iou == IouDist(track, filtered_dets[j])
             better == /\ j \notin used_dets
                       /\ (min_idx = 0 \/ ~CostLess(IouDist(track, filtered_dets[min_idx]), iou))
                       /\ IouAbove(iou, 1, 2)
         IN  ScanDetsLast(track, filtered_dets, used_dets, j + 1, IF better THEN j ELSE min_idx)

RECURSIVE ScanDets(_, _, _, _, _)
\* the inner loop over j for track i: the index of the minimum-cost unused
\* detection whose cost is below 0.5
ScanDets(track, filtered_dets, used_dets, j, min_idx) ==
    IF j > Len(filtered_dets) THEN min_idx
    ELSE LET iou == IouDist(track, filtered_dets[j])
             better == /\ j \notin used_dets
                       /\ (min_idx = 0 \/ CostLess(iou, IouDist(track, filtered_dets[min_idx])))
                       /\ IouAbove(iou, 1, 2)
         IN  ScanDets(track, filtered_dets, used_dets, j + 1, IF better THEN j ELSE min_idx)

RECURSIVE AssignNoInsert(_, _, _, _, _)
\* the outer loop without used_dets.insert(min_idx)
AssignNoInsert(tracks, filtered_dets, i, used_dets, assignments) ==
    IF i > Len(tracks) THEN [assignments |-> assignments, used_dets |-> used_dets]
    ELSE LET min_idx == ScanDets(tracks[i], filtered_dets, used_dets, 1, 0)
         IN  IF min_idx > 0
             THEN AssignNoInsert(tracks, filtered_dets, i + 1, used_dets,
                                 Append(assignments, <<i, min_idx>>))
             ELSE AssignNoInsert(tracks, filtered_dets, i + 1, used_dets, assignments)

RECURSIVE Assign(_, _, _, _, _)
\* the outer loop over the tracks
Assign(tracks, filtered_dets, i, used_dets, assignments) ==
    IF i > Len(tracks) THEN [assignments |-> assignments, used_dets |-> used_dets]
    ELSE LET min_idx == ScanDets(tracks[i], filtered_dets, used_dets, 1, 0)
         IN  IF min_idx > 0
             THEN Assign(tracks, filtered_dets, i + 1, used_dets \cup {min_idx},
                         Append(assignments, <<i, min_idx>>))
             ELSE Assign(tracks, filtered_dets, i + 1, used_dets, assignments)

\* the indices of 1..n that satisfy keep, in increasing order
RECURSIVE IndexSeq(_, _, _)
IndexSeq(i, n, keep) ==
    IF i > n THEN <<>>
    ELSE (IF i \in keep THEN <<i>> ELSE <<>>) \o IndexSeq(i + 1, n, keep)

match_tracks(tracks, filtered_dets) ==
    IF Len(tracks) = 0 \/ Len(filtered_dets) = 0
    THEN [matches |-> <<>>,
          unmatched_tracks |-> IndexSeq(1, Len(tracks), 1..Len(tracks)),
          unmatched_dets |-> IndexSeq(1, Len(filtered_dets), 1..Len(filtered_dets))]
    ELSE LET a == Assign(tracks, filtered_dets, 1, {}, <<>>)
             matched_tracks == {a.assignments[k][1] : k \in 1..Len(a.assignments)}
         IN  [matches |-> a.assignments,
              unmatched_tracks |-> IndexSeq(1, Len(tracks), (1..Len(tracks)) \ matched_tracks),
              unmatched_dets |-> IndexSeq(1, Len(filtered_dets),
                                          (1..Len(filtered_dets)) \ a.used_dets)]

(***************************************************************************)
(* SMILEtrack::remove_duplicate_tracks                                     *)
(***************************************************************************)
\* the pairs i < j of Tracked entries whose boxes overlap with IoU > 0.7
OverlapPairs(tracks) ==
    {p \in (1..Len(tracks)) \X (1..Len(tracks)) :
        /\ p[1] < p[2]
        /\ IouAbove(compute_iou(tlwh_to_tlbr(tracks[p[1]].tlwh),
                                tlwh_to_tlbr(tracks[p[2]].tlwh)), 7, 10)}

\* the indices pushed to duplicates
Duplicates(tracks) ==
    {IF tracks[p[1]].tracklet_len > tracks[p[2]].tracklet_len THEN p[2] ELSE p[1] :
        p \in OverlapPairs(tracks)}

\* the subsequence of s at the indices in keep
RECURSIVE SubSeqAt(_, _, _)
SubSeqAt(s, i, keep) ==
    IF i > Len(s) THEN <<>>
    ELSE (IF i \in keep THEN <<s[i]>> ELSE <<>>) \o SubSeqAt(s, i + 1, keep)

remove_duplicate_tracks(tracks) ==
    SubSeqAt(tracks, 1, (1..Len(tracks)) \ Duplicates(tracks))

(***************************************************************************)
(* Inputs: the detections of a frame, the time that passes between two     *)
(* calls, the homographies GMC finds.                                      *)
(***************************************************************************)
BoxSize == Px(20)

Det(x, confidence, class_id) ==
    [tlwh |-> <<Px(x), 0, BoxSize, BoxSize>>, confidence |-> confidence, class_id |-> class_id]

DetA == Det(0, 90, 1)
DetB == Det(4, 80, 1)
DetC == Det(50, 90, 1)
DetLow == Det(0, 30, 1)

Classes == {1}

Shift == <<Px(4), 0>>

\* one call of update: the detections, the seconds since the previous call,
\* the homography GMC finds once it has a previous frame, the corners in
\* the frame
Call(dets, dt, found) == [dets |-> dets, dt |-> dt, found |-> found, corners |-> MaxCorners]

\* the same call with a frame without texture
Featureless(call) == [call EXCEPT !.corners = NoCorners]

Calls ==
    {Call(<<>>, 0, NoHomography),
     Call(<<DetLow>>, 0, NoHomography),
     Call(<<DetA>>, 0, NoHomography),
     Call(<<DetB>>, 0, NoHomography),
     Call(<<DetA, DetC>>, 0, NoHomography),
     Call(<<DetA, DetB>>, 0, NoHomography),
     Call(<<DetA>>, 0, Shift),
     Call(<<>>, MaxTimeLost + 1, NoHomography),
     Featureless(Call(<<DetA>>, 0, NoHomography))}

Outcomes == {"ok", "cvt_err", "corners_err"}

TrackBuffers == {0, 1}

FirstFrameId == 0

(***************************************************************************)
(* SMILEtrack                                                              *)
(***************************************************************************)
IsHigh(d) == d.confidence >= TrackHighThresh

\* the sequence <<Op(1), ..., Op(n)>>
MapTo(n, Op(_)) == [k \in 1..n |-> Op(k)] \o <<>>

\* the detection matched to track i, or 0
DetOf(matches, i) ==
    IF \E k \in 1..Len(matches) : matches[k][1] = i
    THEN matches[CHOOSE k \in 1..Len(matches) : matches[k][1] = i][2]
    ELSE 0

\* Tier1 without the confidence filter
Tier1Unfiltered(dets, h) ==
    LET Advance(t) == STrackPredict(IF h = NoHomography THEN t ELSE apply_to_track(t, h))
        T(i) == Advance(tracked_stracks[i])
        L(i) == Advance(lost_stracks[i])
        tracked1 == MapTo(Len(tracked_stracks), T)
    IN  [dets |-> dets,
         high_score_dets |-> dets,
         tracked |-> tracked1,
         lost |-> MapTo(Len(lost_stracks), L),
         m1 |-> match_tracks(tracked1, dets)]

\* update() up to the tier-1 match: motion compensation with homography h,
\* the high-confidence detections, predict, match_tracks on the Tracked list
Tier1(dets, h) ==
    LET Advance(t) == STrackPredict(IF h = NoHomography THEN t ELSE apply_to_track(t, h))
        T(i) == Advance(tracked_stracks[i])
        L(i) == Advance(lost_stracks[i])
        high == SelectSeq(dets, IsHigh)
        tracked1 == MapTo(Len(tracked_stracks), T)
    IN  [dets |-> dets,
         high_score_dets |-> high,
         tracked |-> tracked1,
         lost |-> MapTo(Len(lost_stracks), L),
         m1 |-> match_tracks(tracked1, high)]

\* the classes that STrack::update may return for the tracks matched in tier 1
ModeChoices(pre) ==
    {modes \in [1..Len(pre.tracked) -> Classes] :
        \A i \in 1..Len(pre.tracked) :
            IF DetOf(pre.m1.matches, i) # 0
            THEN modes[i] \in ModeSet(PushClass(pre.tracked[i].class_hist,
                                 pre.high_score_dets[DetOf(pre.m1.matches, i)].class_id))
            ELSE modes[i] = CHOOSE c \in Classes : TRUE}

\* update matched tracks
UpdateMatched(pre, frame_id, now, modes) ==
    LET T2(i) == IF DetOf(pre.m1.matches, i) # 0
                 THEN STrackUpdate(pre.tracked[i],
                                   pre.high_score_dets[DetOf(pre.m1.matches, i)],
                                   frame_id, now, modes[i])
                 ELSE pre.tracked[i]
    IN  MapTo(Len(pre.tracked), T2)

\* refind matched tracks: the Lost list after re_activate, and refind_stracks
Refind(pre, m2, frame_id) ==
    LET L2(i) == IF DetOf(m2.matches, i) # 0
                 THEN re_activate(pre.lost[i], pre.high_score_dets[DetOf(m2.matches, i)],
                                  frame_id, FALSE)
                 ELSE pre.lost[i]
        R(k) == L2(m2.matches[k][1])
    IN  [lost |-> MapTo(Len(pre.lost), L2), refind_stracks |-> MapTo(Len(m2.matches), R)]

\* mark unmatched tracks as lost with `>=` in place of `>`
MarkLostAtBuffer(tracked2, unmatched_tracks_1) ==
    LET to_lost == {i \in Range(unmatched_tracks_1) : tracked2[i].tracklet_len >= track_buffer}
        T3(i) == IF i \in to_lost THEN mark_lost(tracked2[i]) ELSE tracked2[i]
    IN  [tracked |-> MapTo(Len(tracked2), T3),
         lost_stracks |-> SubSeqAt(MapTo(Len(tracked2), T3), 1, to_lost)]

\* mark unmatched tracks as lost: the Tracked list after mark_lost, and the
\* local lost_stracks
MarkLost(tracked2, unmatched_tracks_1) ==
    LET to_lost == {i \in Range(unmatched_tracks_1) : tracked2[i].tracklet_len > track_buffer}
        T3(i) == IF i \in to_lost THEN mark_lost(tracked2[i]) ELSE tracked2[i]
    IN  [tracked |-> MapTo(Len(tracked2), T3),
         lost_stracks |-> SubSeqAt(MapTo(Len(tracked2), T3), 1, to_lost)]

\* create new tracks for unmatched detections: the local activated_stracks
Spawn(pre, frame_id, now) ==
    LET A(k) == LET det == pre.high_score_dets[pre.m1.unmatched_dets[k]]
                IN  activate(STrackNew(det.tlwh, det.confidence, det.class_id, frame_id, now),
                             frame_id, track_id_count + k)
    IN  MapTo(Len(pre.m1.unmatched_dets), A)

\* remove old lost tracks: the Lost list after mark_removed, and the local
\* removed_stracks
Expire(lost2, now) ==
    LET to_removed == {i \in 1..Len(lost2) : now - lost2[i].last_update > MaxTimeLost}
        L3(i) == IF i \in to_removed THEN mark_removed(lost2[i]) ELSE lost2[i]
    IN  [lost |-> MapTo(Len(lost2), L3),
         removed_stracks |-> SubSeqAt(MapTo(Len(lost2), L3), 1, to_removed)]

TrackIds(tracks) == LET Id(i) == tracks[i].track_id IN MapTo(Len(tracks), Id)

\* the locals of update() that the properties refer to; joined is the
\* Tracked list after the extend calls, before remove_duplicate_tracks, and
\* states the states of its entries
Locals(pre, m2, lost_local, activated_stracks, joined, frame_id, now, found, homography) ==
    [ok |-> TRUE, frame_id |-> frame_id, now |-> now,
     outcome |-> "ok", found |-> found, homography |-> homography,
     dets |-> pre.dets,
     high_score_dets |-> pre.high_score_dets,
     matches_1 |-> pre.m1.matches,
     unmatched_tracks_1 |-> pre.m1.unmatched_tracks,
     unmatched_dets_1 |-> pre.m1.unmatched_dets,
     matches_2 |-> m2.matches,
     lost_stracks |-> TrackIds(lost_local),
     tracked_ids |-> TrackIds(pre.tracked),
     lost_ids |-> TrackIds(pre.lost),
     activated_ids |-> TrackIds(activated_stracks),
     joined |-> LET J(i) == [track_id |-> joined[i].track_id, tlwh |-> joined[i].tlwh,
                             tracklet_len |-> joined[i].tracklet_len]
                IN  MapTo(Len(joined), J),
     states |-> LET S(i) == joined[i].state IN MapTo(Len(joined), S)]

NoLocals ==
    [ok |-> TRUE, frame_id |-> None, now |-> 0,
     outcome |-> "ok", found |-> NoHomography, homography |-> NoHomography,
     dets |-> <<>>, high_score_dets |-> <<>>,
     matches_1 |-> <<>>, unmatched_tracks_1 |-> <<>>, unmatched_dets_1 |-> <<>>,
     matches_2 |-> <<>>, lost_stracks |-> <<>>, lost_ids |-> <<>>, tracked_ids |-> <<>>,
     activated_ids |-> <<>>, joined |-> <<>>, states |-> <<>>]

\* nothing exercised yet
NoIouCall == [a |-> <<0, 0, 0, 0>>, b |-> <<0, 0, 0, 0>>,
              ret |-> compute_iou(<<0, 0, 0, 0>>, <<0, 0, 0, 0>>)]
NoMatchCall == [tracks |-> <<>>, filtered_dets |-> <<>>, ret |-> match_tracks(<<>>, <<>>)]
NoDedupCall == [tracks |-> <<>>, ret |-> remove_duplicate_tracks(<<>>)]
NoKalman == [op |-> "none", mean |-> <<>>, covariance |-> <<>>, start |-> <<>>,
             measurement |-> <<>>, predicts |-> 0, updates |-> 0]
NoTrack == [state |-> "None"]

Init ==
    /\ tracked_stracks = <<>>
    /\ lost_stracks = <<>>
    /\ removed_stracks = <<>>
    /\ track_id_count = 0
    /\ track_buffer \in TrackBuffers
    /\ gmc = [prev_frame |-> None, prev_pts |-> None, pts_frame |-> None]
    /\ clock = 0
    /\ next_frame_id = FirstFrameId
    /\ last = NoLocals
    /\ iou_call = NoIouCall
    /\ match_call = NoMatchCall
    /\ dedup_call = NoDedupCall
    /\ kf = NoKalman
    /\ strack = NoTrack
    /\ strack_log = <<>>

\* the caller calls update once per frame and stops at the first Err
\* (bin/smiletrack.rs: process_frame(...)? inside the frame loop)
CanCall ==
    /\ next_frame_id < FirstFrameId + MaxFrames
    /\ last.ok

\* update(dets, frame, frame_id) returns Ok(()).  Each local of the function
\* is bound once, in the order of the code.
Update(call) ==
    /\ CanCall
    /\ \E g \in {GmcApply(gmc, next_frame_id, "ok", call.found, call.corners)} :
       \E pre \in {Tier1(call.dets, g.homography)} :
       \E modes \in ModeChoices(pre) :
       \E tracked2 \in {UpdateMatched(pre, next_frame_id, clock + call.dt, modes)} :
       \E m2 \in {match_tracks(pre.lost, pre.high_score_dets)} :
       \E re \in {Refind(pre, m2, next_frame_id)} :
       \E ml \in {MarkLost(tracked2, pre.m1.unmatched_tracks)} :
       \E activated_stracks \in {Spawn(pre, next_frame_id, clock + call.dt)} :
       \E ex \in {Expire(re.lost, clock + call.dt)} :
       \E joined \in {ml.tracked \o activated_stracks \o re.refind_stracks} :
          /\ g.ok
          /\ track_id_count + Len(activated_stracks) <= MaxTracks
          /\ tracked_stracks' = remove_duplicate_tracks(joined)
          /\ lost_stracks' = ex.lost \o ml.lost_stracks
          /\ removed_stracks' = removed_stracks \o ex.removed_stracks
          /\ track_id_count' = track_id_count + Len(activated_stracks)
          /\ gmc' = g.gmc
          /\ last' = Locals(pre, m2, ml.lost_stracks, activated_stracks, joined,
                           next_frame_id, clock + call.dt, call.found, g.homography)
    /\ clock' = clock + call.dt
    /\ next_frame_id' = next_frame_id + 1
    /\ UNCHANGED <<track_buffer, unit_vars>>

\* update(dets, frame, frame_id) returns Err: gmc.apply(frame)? failed
UpdateErr(outcome) ==
    /\ CanCall
    /\ \E g \in {GmcApply(gmc, next_frame_id, outcome, NoHomography, MaxCorners)} :
          /\ ~g.ok
          /\ gmc' = g.gmc
    /\ last' = [NoLocals EXCEPT !.ok = FALSE, !.frame_id = next_frame_id, !.now = clock,
                                !.outcome = outcome]
    /\ next_frame_id' = next_frame_id + 1
    /\ UNCHANGED <<tracked_stracks, lost_stracks, removed_stracks, track_id_count,
                   track_buffer, clock, unit_vars>>

\* the collections and the id counter that update(dets, frame, frame_id)
\* leaves when GMC returns homography and the call is made at instant now:
\* one outcome for each choice of the classes STrack::update may return
UpdateOutcomes(dets, homography, frame_id, now) ==
    LET pre == Tier1(dets, homography)
        m2 == match_tracks(pre.lost, pre.high_score_dets)
        re == Refind(pre, m2, frame_id)
        activated_stracks == Spawn(pre, frame_id, now)
        ex == Expire(re.lost, now)
    IN  {LET ml == MarkLost(UpdateMatched(pre, frame_id, now, modes), pre.m1.unmatched_tracks)
         IN  [tracked_stracks |->
                  remove_duplicate_tracks(ml.tracked \o activated_stracks \o re.refind_stracks),
              lost_stracks |-> ex.lost \o ml.lost_stracks,
              removed_stracks |-> removed_stracks \o ex.removed_stracks,
              track_id_count |-> track_id_count + Len(activated_stracks)] :
         modes \in ModeChoices(pre)}

Next ==
    \/ \E call \in Calls : Update(call)
    \/ \E outcome \in Outcomes : UpdateErr(outcome)

Spec == Init /\ [][Next]_vars


(***************************************************************************)
(* Properties                                                              *)
(***************************************************************************)
IdsOf(tracks) == {tracks[i].track_id : i \in 1..Len(tracks)}

AllIds == IdsOf(tracked_stracks) \cup IdsOf(lost_stracks) \cup IdsOf(removed_stracks)

\* the number of entries of tracks with track_id id
Entries(tracks, id) == Cardinality({i \in 1..Len(tracks) : tracks[i].track_id = id})

\* C1: every track_id is held in at most one of the collections
\* tracked_stracks, lost_stracks and removed_stracks.
C1_Disjoint ==
    /\ IdsOf(tracked_stracks) \cap IdsOf(lost_stracks) = {}
    /\ IdsOf(tracked_stracks) \cap IdsOf(removed_stracks) = {}
    /\ IdsOf(lost_stracks) \cap IdsOf(removed_stracks) = {}


\* the detections (indices of high_score_dets) matched by a list of matches
MatchedDets(matches) == {matches[k][2] : k \in 1..Len(matches)}

\* the tracks (indices of the matched list) matched by a list of matches
MatchedTracks(matches) == {matches[k][1] : k \in 1..Len(matches)}

\* C2: an STrack whose state is Removed keeps that state through every later
\* update() call and is not matched to a detection by it.
C2_RemovedTerminal ==
    [][/\ \A i \in 1..Len(lost_stracks) :
             lost_stracks[i].state = Removed =>
                 /\ lost_stracks'[i].state = Removed
                 /\ i \notin MatchedTracks(last'.matches_2)
       /\ \A i \in 1..Len(removed_stracks) : removed_stracks'[i].state = Removed]_vars

\* C3: after every update() call the Tracked list holds no two entries with
\* the same track_id, and every track_id in it is a positive integer.
C3_UniquePositiveIds ==
    /\ \A i, j \in 1..Len(tracked_stracks) :
           i # j => tracked_stracks[i].track_id # tracked_stracks[j].track_id
    /\ \A i \in 1..Len(tracked_stracks) : tracked_stracks[i].track_id > 0

RECURSIVE IsSubseq(_, _)
\* a is b with some elements left out
IsSubseq(a, b) ==
    IF Len(a) = 0 THEN TRUE
    ELSE IF Len(b) = 0 THEN FALSE
    ELSE IF Head(a) = Head(b) THEN IsSubseq(Tail(a), Tail(b))
    ELSE IsSubseq(a, Tail(b))

\* the ids of the Lost entries that the call re-activated, in match order
RefoundIds(l) == LET Id(k) == l.lost_ids[l.matches_2[k][1]] IN MapTo(Len(l.matches_2), Id)

\* the ids track_id_count + 1, ..., track_id_count' in increasing order
FreshIds == LET Id(k) == track_id_count + k IN MapTo(track_id_count' - track_id_count, Id)

\* C4: ids come from a counter that only grows: the tracks a call creates get
\* the ids track_id_count + 1, track_id_count + 2, ... in the order of their
\* detections (so the first track ever gets 1 and a new id is greater than
\* every id allocated before), no entry of a collection changes its id (also
\* through re_activate), and entries with one id stem from one creation.
C4_IdAllocation ==
    [][/\ track_id_count' >= track_id_count
       /\ last'.ok => last'.activated_ids = FreshIds
       /\ (AllIds \subseteq 1..track_id_count)'
       /\ IsSubseq(TrackIds(tracked_stracks'),
                   TrackIds(tracked_stracks) \o last'.activated_ids \o RefoundIds(last'))
       /\ \A i \in 1..Len(lost_stracks) : lost_stracks'[i].track_id = lost_stracks[i].track_id
       /\ \A i \in (Len(lost_stracks) + 1)..Len(lost_stracks') :
              lost_stracks'[i].track_id \in IdsOf(tracked_stracks)
       /\ \A i \in 1..Len(removed_stracks) : removed_stracks'[i].track_id = removed_stracks[i].track_id
       /\ \A i \in (Len(removed_stracks) + 1)..Len(removed_stracks') :
              removed_stracks'[i].track_id \in IdsOf(lost_stracks)
       /\ \A t, u \in Range(tracked_stracks') \cup Range(lost_stracks') \cup Range(removed_stracks') :
              t.track_id = u.track_id => t.start_frame = u.start_frame]_vars

\* two ids are allocated, the first holder was demoted and expired, and the
\* call re-activated a Lost entry
C4_Witness ==
    /\ track_id_count = 2
    /\ Len(last.matches_2) > 0
    /\ Len(removed_stracks) > 0
    /\ \E i \in 1..Len(tracked_stracks) : tracked_stracks[i].track_id = 2

\* C5: within one update() call no detection is matched both in tier 1 (to a
\* Tracked track) and in tier 2 (to a Lost track).
C5_DetectionConsumedOnce ==
    MatchedDets(last.matches_1) \cap MatchedDets(last.matches_2) = {}

\* C6: update() creates a new track exactly for each high-confidence detection
\* that is unmatched after both tiers.
C6_SpawnOnlyUnmatched ==
    Len(last.activated_ids) =
        Cardinality((1..Len(last.high_score_dets))
                    \ (MatchedDets(last.matches_1) \cup MatchedDets(last.matches_2)))

\* C7: a Tracked track unmatched in tier 1 is demoted to Lost by the call in
\* which its number of consecutive unmatched frames exceeds track_buffer, and
\* not while that number is track_buffer or less.
C7_BufferCountsUnmatchedFrames ==
    [][\A k \in 1..Len(last'.unmatched_tracks_1) :
          LET i == last'.unmatched_tracks_1[k]
              t == tracked_stracks[i]
              unmatched_frames == last'.frame_id - t.frame_id
          IN  t.state = Tracked =>
                  (unmatched_frames > track_buffer <=> t.track_id \in Range(last'.lost_stracks))]_vars

\* C8: the update() call at which a Lost track's time since its last update
\* exceeds max_time_lost leaves the track in Removed exactly once, in state
\* Removed, and no longer in Lost.
C8_ExpiredMovesToRemoved ==
    [][last'.ok =>
         \A i \in 1..Len(lost_stracks) :
            LET t == lost_stracks[i]
            IN  (t.state # Removed /\ clock' - t.last_update > MaxTimeLost) =>
                    /\ Entries(removed_stracks', t.track_id) = 1
                    /\ Entries(lost_stracks', t.track_id) = 0]_vars

\* C9: after every update() call every entry of the Tracked list has state
\* Tracked, every entry of the Lost list has state Lost and every entry of the
\* Removed list has state Removed.
C9_StateMatchesCollection ==
    /\ \A i \in 1..Len(tracked_stracks) : tracked_stracks[i].state = Tracked
    /\ \A i \in 1..Len(lost_stracks) : lost_stracks[i].state = Lost
    /\ \A i \in 1..Len(removed_stracks) : removed_stracks[i].state = Removed

StoredEntries == Len(tracked_stracks) + Len(lost_stracks) + Len(removed_stracks)

OneEntryPerId ==
    \A id \in AllIds :
        /\ Entries(tracked_stracks, id) <= 1
        /\ Entries(lost_stracks, id) <= 1
        /\ Entries(removed_stracks, id) <= 1

\* C10: each collection holds at most one entry per allocated track_id, and a
\* call that allocates no track_id does not increase the number of stored
\* entries.
C10_BoundedMemory ==
    [][/\ OneEntryPerId'
       /\ track_id_count' = track_id_count => StoredEntries' <= StoredEntries]_vars

(***************************************************************************)
(* match_tracks on its own: the Tracked or Lost list and the               *)
(* high-confidence detections of one call, drawn from a set of boxes.      *)
(***************************************************************************)
\* the most tracks and the most detections of one match_tracks call
MaxMatch == 2

\* the box [x, y, w, h], in pixels
Box(x, y, w, h) == <<Px(x), Px(y), Px(w), Px(h)>>

MatchBoxes ==
    {Box(0, 0, 20, 20), Box(3, 0, 20, 20), Box(12, 0, 20, 20),
     Box(100, 0, 20, 20), Box(125, 0, 20, 20), Box(100, 100, 20, 20)}

\* the sequences over S of length n or less
SeqsUpTo(S, n) == UNION {[1..k -> S] : k \in 0..n}

\* a track that was created from a detection with box tlwh
TrackAt(tlwh) == activate(STrackNew(tlwh, 90, 1, 1, 0), 1, 1)

DetAt(tlwh) == [tlwh |-> tlwh, confidence |-> 90, class_id |-> 1]

MatchTracks(tracks, filtered_dets) ==
    /\ match_call = NoMatchCall
    /\ match_call' = [tracks |-> tracks, filtered_dets |-> filtered_dets,
                      ret |-> match_tracks(tracks, filtered_dets)]
    /\ UNCHANGED <<tracker_vars, iou_call, dedup_call, kf, strack, strack_log>>

\* the track lists and the detection lists a call is made with
MatchTrackLists ==
    {[i \in 1..Len(tb) |-> TrackAt(tb[i])] \o <<>> : tb \in SeqsUpTo(MatchBoxes, MaxMatch)}

MatchDetLists ==
    {[j \in 1..Len(db) |-> DetAt(db[j])] \o <<>> : db \in SeqsUpTo(MatchBoxes, MaxMatch)}

NextMatch ==
    \E tracks \in MatchTrackLists, filtered_dets \in MatchDetLists :
        MatchTracks(tracks, filtered_dets)

SpecMatch == Init /\ [][NextMatch]_vars

\* the IoU of two [x, y, w, h] boxes, each taken in corner form with
\* x2 = x + w and y2 = y + h
IouOfTlwh(a, b) ==
    IouParts(a[1], a[2], a[1] + a[3], a[2] + a[4],
             b[1], b[2], b[1] + b[3], b[2] + b[4])

\* the fractions iou1 and iou2 are equal
SameIou(iou1, iou2) ==
    /\ ~FracGT(iou1.inter, iou1.union, iou2.inter, iou2.union)
    /\ ~FracGT(iou2.inter, iou2.union, iou1.inter, iou1.union)

\* C11: the cost match_tracks computes for a (track, detection) pair is
\* 1 - IoU of the two tlwh boxes in corner form, so every match it returns
\* joins a track and a detection whose IoU exceeds 0.5 (disjoint boxes are
\* never matched).
C11_CostIsTrueIou ==
    /\ \A i \in 1..Len(match_call.tracks), j \in 1..Len(match_call.filtered_dets) :
           SameIou(IouDist(match_call.tracks[i], match_call.filtered_dets[j]),
                   IouOfTlwh(match_call.tracks[i].tlwh, match_call.filtered_dets[j].tlwh))
    /\ \A k \in 1..Len(match_call.ret.matches) :
           LET m == match_call.ret.matches[k]
           IN  IouAbove(IouOfTlwh(match_call.tracks[m[1]].tlwh,
                                  match_call.filtered_dets[m[2]].tlwh), 1, 2)

\* the boxes of tracks a and b overlap with IoU > 0.7
Overlapping(a, b) == IouAbove(IouOfTlwh(a.tlwh, b.tlwh), 7, 10)

\* C12: after every update() call no two entries of the Tracked list have
\* boxes that overlap with IoU > 0.7.
C12_NoOverlapLeft ==
    \A i, j \in 1..Len(tracked_stracks) :
        i < j => ~Overlapping(tracked_stracks[i], tracked_stracks[j])

(***************************************************************************)
(* The tracker on a scene whose objects are away from the image origin.    *)
(***************************************************************************)
DetP == Det(100, 90, 1)
DetQ == Det(120, 80, 1)
DetR == Det(112, 80, 1)

OffOriginCalls ==
    {Call(<<>>, 0, NoHomography),
     Call(<<DetP>>, 0, NoHomography),
     Call(<<DetP, DetQ>>, 0, NoHomography),
     Call(<<DetP, DetR>>, 0, NoHomography)}

NextOffOrigin == \E call \in OffOriginCalls : Update(call)

SpecOffOrigin == Init /\ [][NextOffOrigin]_vars

\* no two tracks of the list have boxes that overlap with IoU > 0.7
NoOverlap(tracks) ==
    \A i, j \in 1..Len(tracks) : i < j => ~Overlapping(tracks[i], tracks[j])

\* C13: a call that starts with an empty Lost list, matches every Tracked
\* track in tier 1, leaves no high-confidence detection unmatched and sees no
\* two Tracked boxes overlap with IoU > 0.7 (before the call and when it
\* deduplicates) allocates no track_id, keeps the set of track_ids of the
\* Tracked list and leaves the Lost list empty.
C13_IdentityPersistence ==
    [][(/\ last'.ok
        /\ next_frame_id' = next_frame_id + 1
        /\ Len(lost_stracks) = 0
        /\ MatchedTracks(last'.matches_1) = 1..Len(tracked_stracks)
        /\ Len(last'.unmatched_dets_1) = 0
        /\ NoOverlap(tracked_stracks)
        /\ NoOverlap(last'.joined))
       => /\ track_id_count' = track_id_count
          /\ IdsOf(tracked_stracks') = IdsOf(tracked_stracks)
          /\ Len(lost_stracks') = 0]_vars

(***************************************************************************)
(* One STrack on its own: STrack::new, then its methods and                *)
(* GMC::apply_to_track in any order, as tests::test_strack_lifecycle calls *)
(* them.  strack_log is the sequence of the calls made: the operation and  *)
(* its arguments.                                                          *)
(***************************************************************************)
\* the most operations applied to the track
MaxOps == 4

UnitDets ==
    {[tlwh |-> Box(100, 100, 20, 20), confidence |-> 90, class_id |-> 1],
     [tlwh |-> Box(110, 105, 20, 20), confidence |-> 95, class_id |-> 2]}

HasTrack == strack # NoTrack /\ Len(strack_log) < MaxOps

\* strack becomes t by the call
Applied(call, t) ==
    /\ strack' = t
    /\ strack_log' = Append(strack_log, call)
    /\ UNCHANGED <<tracker_vars, iou_call, match_call, dedup_call, kf>>

TrackNew(det, frame_id) ==
    /\ strack = NoTrack
    /\ Applied([op |-> "new", det |-> det, frame_id |-> frame_id],
               STrackNew(det.tlwh, det.confidence, det.class_id, frame_id, 0))

TrackActivate(frame_id, track_id) ==
    /\ HasTrack
    /\ Applied([op |-> "activate", frame_id |-> frame_id, track_id |-> track_id],
               activate(strack, frame_id, track_id))

TrackPredict ==
    /\ HasTrack
    /\ Applied([op |-> "predict"], STrackPredict(strack))

TrackUpdate(det, frame_id) ==
    /\ HasTrack
    /\ \E mode \in ModeSet(PushClass(strack.class_hist, det.class_id)) :
           Applied([op |-> "update", det |-> det, frame_id |-> frame_id],
                   STrackUpdate(strack, det, frame_id, 1, mode))

TrackMarkLost ==
    /\ HasTrack
    /\ Applied([op |-> "mark_lost"], mark_lost(strack))

TrackMarkRemoved ==
    /\ HasTrack
    /\ Applied([op |-> "mark_removed"], mark_removed(strack))

TrackReActivate(det, frame_id, new_id) ==
    /\ HasTrack
    /\ Applied([op |-> "re_activate", det |-> det, frame_id |-> frame_id, new_id |-> new_id],
               re_activate(strack, det, frame_id, new_id))

TrackCompensate ==
    /\ HasTrack
    /\ Applied([op |-> "apply_to_track"], apply_to_track(strack, Shift))

NextSTrack ==
    \/ \E det \in UnitDets, frame_id \in {0, 1} : TrackNew(det, frame_id)
    \/ \E frame_id \in {0, 1}, track_id \in {1, 2} : TrackActivate(frame_id, track_id)
    \/ TrackPredict
    \/ \E det \in UnitDets : TrackUpdate(det, 2)
    \/ TrackMarkLost
    \/ TrackMarkRemoved
    \/ \E det \in UnitDets, new_id \in BOOLEAN : TrackReActivate(det, 2, new_id)
    \/ TrackCompensate

SpecSTrack == Init /\ [][NextSTrack]_vars

\* the call of the step and its operation
TheCall == strack_log'[Len(strack_log')]
Op == TheCall.op

C15_Lifecycle ==
    [][strack_log' # strack_log =>
         CASE Op = "new" ->
                  /\ strack'.state = New
                  /\ strack'.track_id = 0
           [] Op = "activate" ->
                  /\ strack'.state = Tracked
                  /\ strack'.track_id = TheCall.track_id
                  /\ strack'.start_frame = TheCall.frame_id
                  /\ strack'.mean = <<strack.tlwh[1], strack.tlwh[2], strack.tlwh[3],
                                     strack.tlwh[4], 0, 0, 0, 0>>
           [] Op = "mark_lost" -> strack'.state = Lost
           [] Op = "re_activate" ->
                  /\ strack'.state = Tracked
                  /\ strack'.track_id = strack.track_id
                  /\ strack'.score = TheCall.det.confidence
           [] OTHER -> TRUE]_vars

\* the lifecycle of tests::test_strack_lifecycle: new, activate with id 2,
\* mark_lost, re_activate with the detection of confidence 0.95
C15_Witness ==
    /\ Len(strack_log) = 4
    /\ strack_log[1].op = "new"
    /\ strack_log[2].op = "activate"
    /\ strack_log[3].op = "mark_lost"
    /\ strack_log[4].op = "re_activate"
    /\ strack.state = Tracked
    /\ strack.track_id = 2
    /\ strack.score = 95

\* track t after the motion compensation of a call and one predict step
Advanced(t, homography) ==
    STrackPredict(IF homography = NoHomography THEN t ELSE apply_to_track(t, homography))

\* a call of update() that returned Ok
Returned == last'.ok /\ next_frame_id' = next_frame_id + 1

UncompensatedBox(i) ==
    LET p == STrackPredict(tracked_stracks[i])
        d == DetOf(last'.matches_1, i)
    IN  IF d = 0 THEN p.tlwh
        ELSE STrackUpdate(p, last'.high_score_dets[d], last'.frame_id, last'.now, 1).tlwh

\* C17: when no OpenCV call fails for reasons of its own, GMC::apply returns
\* Ok(None) on its first call and on every later call with fewer than 4 valid
\* correspondences (no previous points to follow, or too few followed), and
\* update() then returns Ok after predict, association and lifecycle steps
\* on the uncompensated positions.
C17_GmcDegrades ==
    [][(/\ next_frame_id' = next_frame_id + 1
        /\ last'.outcome = "ok"
        /\ \/ gmc.prev_frame = None
           \/ gmc.prev_pts = NoCorners
           \/ last'.found = NoHomography)
       => /\ last'.ok
          /\ last'.homography = NoHomography
          /\ last'.matches_1 =
                 match_tracks([i \in 1..Len(tracked_stracks) |->
                                  STrackPredict(tracked_stracks[i])] \o <<>>,
                              last'.high_score_dets).matches
          /\ \A i \in 1..Len(tracked_stracks) : last'.joined[i].tlwh = UncompensatedBox(i)]_vars

(***************************************************************************)
(* compute_iou on its own, on pairs of [x, y, w, h] boxes: proper boxes,   *)
(* boxes without width or height, at and away from the origin.             *)
(***************************************************************************)
IouBoxes ==
    {Box(x, y, w, h) : x \in {0, 10, 30, 100}, y \in {0, 10}, w \in {0, 20}, h \in {0, 20}}

ComputeIou(a, b) ==
    /\ iou_call = NoIouCall
    /\ iou_call' = [a |-> a, b |-> b, ret |-> compute_iou(a, b)]
    /\ UNCHANGED <<tracker_vars, match_call, dedup_call, kf, strack, strack_log>>

NextIou == \E a \in IouBoxes, b \in IouBoxes : ComputeIou(a, b)

SpecIou == Init /\ [][NextIou]_vars

\* boxes a and b share no area
Disjoint(a, b) ==
    \/ a[1] + a[3] <= b[1]
    \/ b[1] + b[3] <= a[1]
    \/ a[2] + a[4] <= b[2]
    \/ b[2] + b[4] <= a[2]

\* C18: compute_iou(a, a) = 1 for a box of positive width and height,
\* compute_iou(a, b) = 0 for disjoint boxes and whenever a or b has zero
\* area, and compute_iou(a, b) = compute_iou(b, a).
C18_IouAlgebra ==
    LET a == iou_call.a
        b == iou_call.b
        iou == iou_call.ret
    IN  /\ (a = b /\ a[3] > 0 /\ a[4] > 0) => (iou.inter = iou.union /\ iou.union > 0)
        /\ Disjoint(a, b) => iou.inter = 0
        /\ (a[3] * a[4] = 0 \/ b[3] * b[4] = 0) => iou.inter = 0
        /\ SameIou(iou, compute_iou(b, a))

\* two different boxes that overlap in part
C18_Witness ==
    /\ iou_call.a # iou_call.b
    /\ iou_call.ret.inter > 0
    /\ iou_call.ret.inter < iou_call.ret.union

(***************************************************************************)
(* The KalmanFilter on its own: initiate, then predict and update in any   *)
(* order on the (mean, covariance) pair, as the tests call them.  kf also  *)
(* keeps the mean at the start, the measurement of the latest update and   *)
(* the numbers of predict and update calls.                                *)
(***************************************************************************)
\* the most predict and update calls on the pair
MaxKalmanSteps == 4

\* boxes to initiate from: a proper box, and one without width
KalmanBoxes == {Box(100, 100, 20, 20), Box(100, 100, 0, 20)}

\* velocities (vx, vy, vw, vh) the caller sets after initiate
KalmanVelocities == {<<0, 0, 0, 0>>, <<Px(10), Px(5), 0, 0>>}

\* measurements to update with
KalmanMeasurements == {Box(110, 105, 25, 15), Box(100, 100, 20, 20)}

KalmanInitiateCall(measurement, velocity) ==
    /\ kf = NoKalman
    /\ LET k == KalmanInitiate(measurement)
           mean == <<k.mean[1], k.mean[2], k.mean[3], k.mean[4],
                     velocity[1], velocity[2], velocity[3], velocity[4]>>
       IN  kf' = [op |-> "initiate", mean |-> mean, covariance |-> k.cov, start |-> mean,
                  measurement |-> measurement, predicts |-> 0, updates |-> 0]
    /\ UNCHANGED <<tracker_vars, iou_call, match_call, dedup_call, strack, strack_log>>

KalmanPredictCall ==
    /\ kf # NoKalman
    /\ kf.predicts + kf.updates < MaxKalmanSteps
    /\ LET k == KalmanPredict(kf.mean, kf.covariance)
       IN  kf' = [kf EXCEPT !.op = "predict", !.mean = k.mean, !.covariance = k.cov,
                            !.predicts = kf.predicts + 1]
    /\ UNCHANGED <<tracker_vars, iou_call, match_call, dedup_call, strack, strack_log>>

KalmanUpdateCall(measurement) ==
    /\ kf # NoKalman
    /\ kf.predicts + kf.updates < MaxKalmanSteps
    /\ LET k == KalmanUpdate(kf.mean, kf.covariance, measurement)
       IN  kf' = [kf EXCEPT !.op = "update", !.mean = k.mean, !.covariance = k.cov,
                            !.measurement = measurement, !.updates = kf.updates + 1]
    /\ UNCHANGED <<tracker_vars, iou_call, match_call, dedup_call, strack, strack_log>>

NextKalman ==
    \/ \E measurement \in KalmanBoxes, velocity \in KalmanVelocities :
           KalmanInitiateCall(measurement, velocity)
    \/ KalmanPredictCall
    \/ \E measurement \in KalmanMeasurements : KalmanUpdateCall(measurement)

SpecKalman == Init /\ [][NextKalman]_vars

\* C19: predict adds each velocity component to its position or size
\* component and leaves the velocities as they are, so that after n predict
\* calls (and no update) the position is the position at the start plus n
\* times the velocity.
C19_ConstantVelocity ==
    [][kf'.predicts = kf.predicts + 1 =>
         /\ \A i \in 1..4 :
                /\ kf'.mean[i] = kf.mean[i] + kf.mean[i + 4]
                /\ kf'.mean[i + 4] = kf.mean[i + 4]
         /\ kf'.updates = 0 =>
                \A i \in 1..4 : kf'.mean[i] = kf.start[i] + kf'.predicts * kf.start[i + 4]]_vars

\* (100,100) with velocity (10,5) after two predict calls
C19_Witness ==
    /\ kf.op = "predict"
    /\ kf.predicts = 2
    /\ kf.updates = 0
    /\ kf.start[5] = Px(10)
    /\ kf.mean[1] = Px(120)
    /\ kf.mean[2] = Px(110)

\* x lies strictly between a and b
StrictlyBetween(x, a, b) == (a < x /\ x < b) \/ (b < x /\ x < a)

\* the pair comes from initiate and predict calls only
FromInitiate ==
    /\ kf # NoKalman
    /\ kf.updates = 0
    /\ \A i \in 5..8 : kf.start[i] = 0

\* the step is an update call
IsUpdate == kf'.updates = kf.updates + 1

\* every coordinate of the mean that differs from the measurement has moved
\* strictly between the two
MovedBetween ==
    \A i \in 1..4 :
        kf'.measurement[i] # kf.mean[i] =>
            StrictlyBetween(kf'.mean[i], kf.mean[i], kf'.measurement[i])

\* C20 as stated: update moves each position/size coordinate of the mean
\* strictly between its value before the update and the coordinate of the
\* measurement whenever the two differ, for a pair produced by initiate and
\* any number of predict calls.
C20_UpdateBetween ==
    [][(FromInitiate /\ IsUpdate) => MovedBetween]_vars

\* C20, amended: the same, for a pair produced by initiate from a box of
\* positive width and height and any number of predict calls.
C20_UpdateBetweenProperBox ==
    [][(FromInitiate /\ kf.start[3] > 0 /\ kf.start[4] > 0 /\ IsUpdate) => MovedBetween]_vars

\* a proper box at (100,100), two predict calls, then an update with a
\* measurement at (110,105): x and y lie strictly between
C20_Witness ==
    /\ kf.op = "update"
    /\ kf.updates = 1
    /\ kf.predicts = 2
    /\ kf.start = <<Px(100), Px(100), Px(20), Px(20), 0, 0, 0, 0>>
    /\ kf.measurement[1] = Px(110)
    /\ StrictlyBetween(kf.mean[1], Px(100), Px(110))
    /\ StrictlyBetween(kf.mean[2], Px(100), Px(105))

(***************************************************************************)
(* match_tracks as an assignment, under SpecMatch.  The cost of a pair is  *)
(* the entry of the cost matrix the function builds.                       *)
(***************************************************************************)
\* cost_matrix[i][j] < 0.5
BelowGate(i, j) == IouAbove(IouDist(match_call.tracks[i], match_call.filtered_dets[j]), 1, 2)

\* cost_matrix[i][j] < cost_matrix[i][k]
Cheaper(i, j, k) ==
    CostLess(IouDist(match_call.tracks[i], match_call.filtered_dets[j]),
             IouDist(match_call.tracks[i], match_call.filtered_dets[k]))

\* the detections matched to the tracks before track i
UsedBefore(i) ==
    {match_call.ret.matches[k][2] :
        k \in {n \in 1..Len(match_call.ret.matches) : match_call.ret.matches[n][1] < i}}

\* the detections track i may take
Candidates(i) ==
    {j \in 1..Len(match_call.filtered_dets) : j \notin UsedBefore(i) /\ BelowGate(i, j)}

\* the candidate of the lowest cost, of the lowest index among equal costs
Best(i) ==
    CHOOSE j \in Candidates(i) :
        \A k \in Candidates(i) : ~Cheaper(i, k, j) /\ (k < j => Cheaper(i, j, k))

\* C21: match_tracks is the greedy assignment: tracks are visited in index
\* order; each takes, among the detections no earlier track has taken, the
\* one of the lowest cost if that cost is below 0.5 (the lowest index among
\* equal costs); a track without such a detection stays unmatched.
C21_GreedyAssignment ==
    LET matches == match_call.ret.matches
    IN  /\ \A k \in 1..(Len(matches) - 1) : matches[k][1] < matches[k + 1][1]
        /\ \A i \in 1..Len(match_call.tracks) :
               IF Candidates(i) = {}
               THEN i \notin MatchedTracks(matches)
               ELSE \E k \in 1..Len(matches) : matches[k] = <<i, Best(i)>>

\* the first track took the only detection although the second track
\* fits it better, and the second stays unmatched
C21_Witness ==
    /\ Len(match_call.tracks) = 2
    /\ Len(match_call.filtered_dets) = 1
    /\ match_call.ret.matches = <<(<<1, 1>>)>>
    /\ match_call.ret.unmatched_tracks = <<2>>
    /\ BelowGate(2, 1)
    /\ CostLess(IouDist(match_call.tracks[2], match_call.filtered_dets[1]),
                IouDist(match_call.tracks[1], match_call.filtered_dets[1]))

\* a track took the first of two detections of equal cost
TieTaken ==
    /\ Len(match_call.tracks) = 1
    /\ Len(match_call.filtered_dets) = 2
    /\ match_call.filtered_dets[1] = match_call.filtered_dets[2]
    /\ match_call.ret.matches = <<(<<1, 1>>)>>

\* Tracked entry i after the call's motion compensation and predict step is
\* an entry of the Tracked list the call leaves
StaysTracked(i) ==
    \E k \in 1..Len(tracked_stracks') :
        tracked_stracks'[k] = Advanced(tracked_stracks[i], last'.homography)

DetEq == Det(4, TrackHighThresh, 1)
DetLowFar == Det(50, TrackHighThresh - 1, 1)

ThresholdDets ==
    {<<>>, <<DetLow>>, <<DetA>>, <<DetLow, DetA>>, <<DetA, DetLowFar>>,
     <<DetEq>>, <<DetEq, DetLow>>, <<DetLowFar>>}

\* the calls: each list on a textured frame, no time between the frames
ThresholdCalls == {Call(dets, 0, NoHomography) : dets \in ThresholdDets}

NextThreshold == \E call \in ThresholdCalls : Update(call)

SpecThreshold == Init /\ [][NextThreshold]_vars

\* the confidence of detection d is track_high_thresh or more
AtOrAbove(d) == d.confidence >= TrackHighThresh

\* C23: update() takes the detections with confidence >= track_high_thresh
\* as high-confidence, and the detections below it have no effect: a call
\* from the same state with any detection list that has the same detections
\* at or above the threshold leaves the same Tracked, Lost and Removed
\* collections and the same id counter.
C23_LowConfidenceIgnored ==
    [][Returned =>
         /\ last'.high_score_dets = SelectSeq(last'.dets, AtOrAbove)
         /\ \A dets \in ThresholdDets :
                SelectSeq(dets, AtOrAbove) = SelectSeq(last'.dets, AtOrAbove) =>
                    /\ UpdateOutcomes(dets, last'.homography, last'.frame_id, last'.now) =
                           UpdateOutcomes(last'.dets, last'.homography, last'.frame_id, last'.now)
                    /\ [tracked_stracks |-> tracked_stracks',
                        lost_stracks |-> lost_stracks',
                        removed_stracks |-> removed_stracks',
                        track_id_count |-> track_id_count']
                           \in UpdateOutcomes(dets, last'.homography, last'.frame_id, last'.now)]_vars

\* a call with a detection at the threshold and one below it matched the
\* first to a track, after an earlier call with only a detection below the
\* threshold had created no track
C23_Witness ==
    /\ last.ok
    /\ last.dets = <<DetEq, DetLow>>
    /\ last.matches_1 = <<(<<1, 1>>)>>
    /\ track_id_count = 1
    /\ \E i \in 1..Len(tracked_stracks) : tracked_stracks[i].score = TrackHighThresh

\* C24: GMC::apply advances its state once per call whatever the outcome of
\* the call: after every call the stored previous frame and the stored
\* corner set are present and both come from the frame just passed in.
C24_GmcAlwaysAdvances ==
    [][next_frame_id' = next_frame_id + 1 =>
         /\ gmc'.prev_frame = next_frame_id
         /\ gmc'.prev_pts # None
         /\ gmc'.pts_frame = next_frame_id]_vars

\* C25: the cached box tlwh equals the first four components of mean after
\* every operation that changes mean: predict, update, re_activate, activate
\* and GMC::apply_to_track.
C25_TlwhIsMeanBox ==
    [][(strack_log' # strack_log
        /\ Op \in {"predict", "update", "re_activate", "activate", "apply_to_track"})
       => strack'.tlwh = state_to_tlwh(strack')]_vars

(***************************************************************************)
(* The class history of one STrack: STrack::new, then STrack::update with  *)
(* detections of two classes, more often than the history is long.         *)
(***************************************************************************)
\* the most update calls on the track
MaxUpdates == 11

HistUpdate(det) ==
    /\ strack # NoTrack
    /\ Len(strack_log) <= MaxUpdates
    /\ \E mode \in ModeSet(PushClass(strack.class_hist, det.class_id)) :
           Applied([op |-> "update", det |-> det, frame_id |-> Len(strack_log) + 1],
                   STrackUpdate(strack, det, Len(strack_log) + 1, 1, mode))

NextClassHist ==
    \/ \E det \in UnitDets : TrackNew(det, 1)
    \/ \E det \in UnitDets : HistUpdate(det)

SpecClassHist == Init /\ [][NextClassHist]_vars

RECURSIVE ClassesSeen(_)
\* the classes of the detections handed to new and to update, in call order
ClassesSeen(log) ==
    IF Len(log) = 0 THEN <<>>
    ELSE ClassesSeen(SubSeq(log, 1, Len(log) - 1))
         \o (IF log[Len(log)].op \in {"new", "update"} THEN <<log[Len(log)].det.class_id>>
             ELSE <<>>)

\* the last n elements of s, or all of s if it has fewer
LastOf(s, n) == IF Len(s) <= n THEN s ELSE SubSeq(s, Len(s) - n + 1, Len(s))

\* C26: the class history holds the classes of the creating detection and of
\* the detections of the update calls, the latest 10 of them at most (the
\* oldest is dropped first), and after every STrack::update class_id is a
\* class whose number of occurrences in the history is maximal.
C26_ClassHistory ==
    strack # NoTrack =>
        /\ Len(strack.class_hist) <= 10
        /\ strack.class_hist = LastOf(ClassesSeen(strack_log), 10)
        /\ strack_log[Len(strack_log)].op = "update" =>
               /\ strack.class_id \in Range(strack.class_hist)
               /\ \A c \in Range(strack.class_hist) :
                      CountOf(strack.class_hist, strack.class_id) >= CountOf(strack.class_hist, c)

\* created with class 1, then updated 11 times with class 2: the history
\* holds ten entries of class 2, the first two entries were dropped
C26_Witness ==
    /\ Len(strack_log) = 12
    /\ strack_log[1].det.class_id = 1
    /\ \A k \in 2..12 : strack_log[k].op = "update" /\ strack_log[k].det.class_id = 2
    /\ strack.class_hist = <<2, 2, 2, 2, 2, 2, 2, 2, 2, 2>>
    /\ strack.class_id = 2

\* C27: the class_id that STrack::update chooses is a function of the class
\* history: every class the call may return for the history it leaves is
\* the class it returned, also when classes tie for the highest count.
C27_ClassIsFunctionOfHistory ==
    [][(strack_log' # strack_log /\ Op = "update") =>
          \A mode \in ModeSet(strack'.class_hist) : strack'.class_id = mode]_vars

\* C28: every track that update() creates and places in the Tracked list is
\* activated (is_activated = TRUE) when the call returns, whatever the
\* frame_id of the call.
C28_SpawnedIsActivated ==
    [][Returned =>
         \A i \in 1..Len(tracked_stracks') :
             tracked_stracks'[i].track_id \in Range(last'.activated_ids) =>
                 tracked_stracks'[i].is_activated]_vars

\* no element occurs twice in the sequence s
NoRepeat(s) == \A m, n \in 1..Len(s) : m # n => s[m] # s[n]

\* C29: the result of match_tracks is a well-formed maximal matching: no
\* track index and no detection index occurs in two matches, every matched
\* pair has cost < 0.5, every track index is in exactly one of matches and
\* unmatched_tracks, every detection index in exactly one of matches and
\* unmatched_dets, and no unmatched track and unmatched detection have a
\* cost below 0.5.
C29_MaximalMatching ==
    LET ret == match_call.ret
        mt == [k \in 1..Len(ret.matches) |-> ret.matches[k][1]]
        md == [k \in 1..Len(ret.matches) |-> ret.matches[k][2]]
    IN  /\ NoRepeat(mt) /\ NoRepeat(md)
        /\ NoRepeat(ret.unmatched_tracks) /\ NoRepeat(ret.unmatched_dets)
        /\ \A k \in 1..Len(ret.matches) : BelowGate(mt[k], md[k])
        /\ Range(mt) \cup Range(ret.unmatched_tracks) = 1..Len(match_call.tracks)
        /\ Range(mt) \cap Range(ret.unmatched_tracks) = {}
        /\ Range(md) \cup Range(ret.unmatched_dets) = 1..Len(match_call.filtered_dets)
        /\ Range(md) \cap Range(ret.unmatched_dets) = {}
        /\ \A i \in Range(ret.unmatched_tracks), j \in Range(ret.unmatched_dets) : ~BelowGate(i, j)

\* two tracks and two detections: one pair matched, the other track and the
\* other detection left unmatched, although the unmatched track fits the
\* matched detection
C29_Witness ==
    /\ Len(match_call.tracks) = 2
    /\ Len(match_call.filtered_dets) = 2
    /\ Len(match_call.ret.matches) = 1
    /\ match_call.ret.unmatched_tracks = <<2>>
    /\ Len(match_call.ret.unmatched_dets) = 1
    /\ BelowGate(2, match_call.ret.matches[1][2])

(***************************************************************************)
(* remove_duplicate_tracks on its own, on a Tracked list of tracks that    *)
(* lie 2 pixels apart near the origin and have been updated 0 to 2 times.  *)
(* The track_id of an entry is its index in the list.                      *)
(***************************************************************************)
\* the most tracks in the list
MaxDedup == 3

DedupBoxes == {Box(0, 0, 20, 20), Box(2, 0, 20, 20), Box(4, 0, 20, 20)}

\* the track with id track_id at tlwh that has been updated tracklet_len times
TrackWith(tlwh, tracklet_len, track_id) ==
    [activate(STrackNew(tlwh, 90, 1, 1, 0), 1, track_id) EXCEPT !.tracklet_len = tracklet_len]

RemoveDuplicateTracks(tracks) ==
    /\ dedup_call = NoDedupCall
    /\ Len(tracks) > 0
    /\ dedup_call' = [tracks |-> tracks, ret |-> remove_duplicate_tracks(tracks)]
    /\ UNCHANGED <<tracker_vars, iou_call, match_call, kf, strack, strack_log>>

\* the track lists a call is made with: ids are the list positions
DedupTrackLists ==
    {[i \in 1..Len(tb) |-> TrackWith(tb[i][1], tb[i][2], i)] \o <<>> :
        tb \in SeqsUpTo(DedupBoxes \X {0, 1, 2}, MaxDedup)}

NextDedup ==
    \E tracks \in DedupTrackLists : RemoveDuplicateTracks(tracks)

SpecDedup == Init /\ [][NextDedup]_vars

\* the indices of the tracks that the call left in the list
Survivors == IdsOf(dedup_call.ret)

\* the tracks at the indices in G overlap one another with IoU > 0.7
MutuallyOverlapping(G) ==
    \A i, j \in G : i # j => Overlapping(dedup_call.tracks[i], dedup_call.tracks[j])

\* G is a group of mutually overlapping tracks that no further track of the
\* list can join
OverlapGroup(G) ==
    /\ G # {}
    /\ MutuallyOverlapping(G)
    /\ \A k \in (1..Len(dedup_call.tracks)) \ G : ~MutuallyOverlapping(G \cup {k})

\* every removed track overlaps a track that survives the pass
RemovedForSurvivor ==
    \A i \in (1..Len(dedup_call.tracks)) \ Survivors :
        \E j \in Survivors : Overlapping(dedup_call.tracks[i], dedup_call.tracks[j])

\* of every group of mutually overlapping tracks at least one survives
GroupSurvives ==
    \A G \in SUBSET (1..Len(dedup_call.tracks)) : OverlapGroup(G) => G \cap Survivors # {}

\* C30: remove_duplicate_tracks removes a track only if a track that
\* survives the pass overlaps it with IoU > 0.7, and of every group of
\* mutually overlapping tracks at least one survives.
C30_RemovedOnlyForSurvivor == RemovedForSurvivor /\ GroupSurvives

====
